---- MODULE Spec2Model ----
(***************************************************************************)
(* Model of the OpenRouter adapter (package main): the request translator  *)
(* (convertRequest, convertContent), the response translator               *)
(* (convertResponse), the helpers (convertRole, convertFinishReason,       *)
(* extractText, joinStrings) and the two call paths of GenerateContent     *)
(* (handleNonStreamingResponse, handleStreamingResponse).                  *)
(*                                                                         *)
(* Go strings are TLA+ strings, Go slices are sequences, a Go pointer is a *)
(* sequence of length 0 (nil) or 1.                                        *)
(***************************************************************************)
EXTENDS Integers, Sequences, FiniteSets, TLC

VARIABLES
    newArgs,              \* the arguments NewOpenRouterModel is called with
    newResult,            \* what NewOpenRouterModel returned, once called: [m, err]
    req,                  \* the *model.LLMRequest handed to GenerateContent
    stream,               \* the stream flag handed to GenerateContent
    pc,                   \* position of the iterator function
    openaiReq,            \* result of convertRequest: [req, err]
    netCalls,             \* number of calls issued on m.client
    completion,           \* what CreateChatCompletion returned, once called
    handle,               \* the stream handle: "none", "open", "closed"
    closeCount,           \* number of stream.Close() calls
    recvLog,              \* every result stream.Recv() has returned, in order
    cur,                  \* chunk.Choices[0] of the iteration suspended in yield
    accumulatedContent,   \* handleStreamingResponse local
    accumulatedToolCalls, \* handleStreamingResponse local
    emitted,              \* every value handed to yield, in order
    consumerStopped,      \* yield has returned false
    turnMsgs              \* what convertContent returned for each turn, in order

vars == <<newArgs, newResult, req, stream, pc, openaiReq, netCalls, completion, handle, closeCount, recvLog,
          cur, accumulatedContent, accumulatedToolCalls, emitted,
          consumerStopped, turnMsgs>>

(***************************************************************************)
(* Bounds of the model.                                                    *)
(***************************************************************************)
MaxChunks == 3      \* chunks one stream delivers before it must end
MaxIndex == 1       \* largest tool-call slot index a delta names
MaxParts == 2       \* parts in one turn of the rich turn set
MaxTurns == 2       \* turns in one multi-turn request

Nil == <<>>

(***************************************************************************)
(* Go maps (map[string]any) and encoding/json.                             *)
(* A map is [isNil, kv]: kv is a set of <<key, value>> pairs with distinct *)
(* keys; a value is "1" (the int 1), "s" (the string "s") or "chan" (a     *)
(* channel, which encoding/json cannot serialize).                         *)
(***************************************************************************)
KeyOrder == <<"a", "b">>      \* the keys, in the byte order json.Marshal emits

NilMap == [isNil |-> TRUE, kv |-> {}]

MkMap(kv) == [isNil |-> FALSE, kv |-> kv]

EncodeValue(v) == IF v = "1" THEN "1" ELSE "\"" \o v \o "\""

\* the entry of key k: "k":value, or nothing when the map has no key k
EncodeEntry(hit, k) ==
    IF hit = {} THEN ""
    ELSE "\"" \o k \o "\":" \o EncodeValue((CHOOSE e \in hit : TRUE)[2])

RECURSIVE EncodeEntries(_, _, _)
EncodeEntries(kv, i, first) ==
    IF i > Len(KeyOrder) THEN ""
    ELSE IF \A e \in kv : e[1] /= KeyOrder[i] THEN EncodeEntries(kv, i + 1, first)
    ELSE (IF first THEN "" ELSE ",")
            \o EncodeEntry({e \in kv : e[1] = KeyOrder[i]}, KeyOrder[i])
            \o EncodeEntries(kv, i + 1, FALSE)

\* json.Marshal of a map[string]any: [json, err]
Marshal(m) ==
    IF \E e \in m.kv : e[2] = "chan"
    THEN [json |-> "", err |-> "json: unsupported type: chan int"]
    ELSE IF m.isNil THEN [json |-> "null", err |-> ""]
    ELSE [json |-> "{" \o EncodeEntries(m.kv, 1, TRUE) \o "}", err |-> ""]

\* The maps of the model.
GoMaps ==
    { NilMap, MkMap({}), MkMap({<<"a", "1">>}), MkMap({<<"b", "s">>}),
      MkMap({<<"a", "1">>, <<"b", "s">>}), MkMap({<<"a", "s">>, <<"b", "1">>}),
      MkMap({<<"a", "chan">>}), MkMap({<<"a", "1">>, <<"b", "chan">>}) }

\* json.Unmarshal([]byte(s), &args) on a nil map[string]any: the map args
\* holds afterwards. A document that is no JSON object leaves args nil.
Unmarshal(s) ==
    IF \E m \in GoMaps : Marshal(m) = [json |-> s, err |-> ""]
    THEN CHOOSE m \in GoMaps : Marshal(m) = [json |-> s, err |-> ""]
    ELSE NilMap

(***************************************************************************)
(* Helper functions of the source.                                         *)
(***************************************************************************)
(***************************************************************************)
(* NewOpenRouterModel                                                      *)
(***************************************************************************)
OpenRouterConfig(apiKey, baseURL) == [APIKey |-> apiKey, BaseURL |-> baseURL]

\* openai.DefaultConfig(cfg.APIKey) with the BaseURL the constructor assigns
ClientConfig(cfg) ==
    [authToken |-> cfg.APIKey,
     BaseURL |-> IF cfg.BaseURL /= "" THEN cfg.BaseURL
                 ELSE "https://openrouter.ai/api/v1"]

\* the *OpenRouterModel: the client is represented by its configuration
OpenRouterModel(config, modelName) ==
    [client |-> config, modelName |-> modelName]

\* NewOpenRouterModel that only rejects a nil configuration
NewOpenRouterModelAcceptsEmptyKey(modelName, cfg) ==
    IF cfg = Nil
    THEN [m |-> Nil, err |-> "OpenRouter API key is required"]
    ELSE [m |-> <<OpenRouterModel(ClientConfig(cfg[1]), modelName)>>, err |-> ""]

NewOpenRouterModel(modelName, cfg) ==
    IF cfg = Nil \/ cfg[1].APIKey = ""
    THEN [m |-> Nil, err |-> "OpenRouter API key is required"]
    ELSE [m |-> <<OpenRouterModel(ClientConfig(cfg[1]), modelName)>>, err |-> ""]

\* convertFinishReason without the case of "tool_calls" and "function_call"
convertFinishReasonNoToolCalls(reason) ==
    CASE reason = "stop" -> "STOP"
      [] reason = "length" -> "MAX_TOKENS"
      [] OTHER -> "FINISH_REASON_UNSPECIFIED"

convertFinishReason(reason) ==
    CASE reason = "stop" -> "STOP"
      [] reason = "length" -> "MAX_TOKENS"
      [] reason \in {"tool_calls", "function_call"} -> "STOP"
      [] OTHER -> "FINISH_REASON_UNSPECIFIED"

\* convertRole without the case of the role "assistant"
convertRoleModelOnly(role) ==
    CASE role = "model" -> "assistant"
      [] role = "system" -> "system"
      [] role = "tool" -> "tool"
      [] OTHER -> "user"

convertRole(role) ==
    CASE role \in {"model", "assistant"} -> "assistant"
      [] role = "system" -> "system"
      [] role = "tool" -> "tool"
      [] OTHER -> "user"

RECURSIVE joinStrings(_)
joinStrings(strs) ==
    IF strs = <<>> THEN "" ELSE Head(strs) \o joinStrings(Tail(strs))

\* genai.Part with the three fields the adapter reads
TextPart(t) == [Text |-> t, FunctionCall |-> Nil, FunctionResponse |-> Nil]

FunctionCallPart(id, name, args) ==
    [Text |-> "",
     FunctionCall |-> <<[ID |-> id, Name |-> name, Args |-> args]>>,
     FunctionResponse |-> Nil]

RECURSIVE NonEmptyTexts(_)
NonEmptyTexts(parts) ==
    IF parts = <<>> THEN <<>>
    ELSE (IF Head(parts).Text /= "" THEN <<Head(parts).Text>> ELSE <<>>)
            \o NonEmptyTexts(Tail(parts))

extractText(content) == joinStrings(NonEmptyTexts(content.Parts))

(***************************************************************************)
(* convertResponse                                                         *)
(***************************************************************************)
ToolCallArgs(tc) ==
    IF tc.Function.Arguments /= "" THEN Unmarshal(tc.Function.Arguments)
    ELSE NilMap

\* ToolCallPart without the check of tc.Type
ToolCallPartAnyType(tc) ==
    <<FunctionCallPart(tc.ID, tc.Function.Name, ToolCallArgs(tc))>>

\* the parts one tool call contributes
ToolCallPart(tc) ==
    IF tc.Type = "function"
    THEN <<FunctionCallPart(tc.ID, tc.Function.Name, ToolCallArgs(tc))>>
    ELSE <<>>

RECURSIVE ToolCallParts(_)
ToolCallParts(tcs) ==
    IF tcs = <<>> THEN <<>>
    ELSE ToolCallPart(Head(tcs)) \o ToolCallParts(Tail(tcs))

LLMResponse(parts) ==
    [Content |-> [Role |-> "model", Parts |-> parts],
     Partial |-> FALSE, TurnComplete |-> FALSE, FinishReason |-> "",
     UsageMetadata |-> Nil]

convertResponse(msg) ==
    LLMResponse((IF msg.Content /= "" THEN <<TextPart(msg.Content)>> ELSE <<>>)
                    \o ToolCallParts(msg.ToolCalls))

(***************************************************************************)
(* convertContent                                                          *)
(***************************************************************************)
FunctionResponsePart(id, name, response) ==
    [Text |-> "", FunctionCall |-> Nil,
     FunctionResponse |-> <<[ID |-> id, Name |-> name, Response |-> response]>>]

ChatCompletionMessage(role, content, toolCalls, toolCallID) ==
    [Role |-> role, Content |-> content, ToolCalls |-> toolCalls,
     ToolCallID |-> toolCallID]

ToolCall(index, id, type, name, arguments) ==
    [Index |-> index, ID |-> id, Type |-> type,
     Function |-> [Name |-> name, Arguments |-> arguments]]

\* the ToolCall appended for one FunctionCall part
FunctionCallToolCall(fc, argsJSON) ==
    ToolCall(Nil, fc.ID, "function", fc.Name, argsJSON)

\* FunctionResponseMessage that refers to the function by name
FunctionResponseMessageByName(fr, responseJSON) ==
    ChatCompletionMessage("tool", responseJSON, <<>>, fr.Name)

\* the message appended for one FunctionResponse part
FunctionResponseMessage(fr, responseJSON) ==
    ChatCompletionMessage("tool", responseJSON, <<>>, fr.ID)

\* the role of the message that carries a turn's text and tool calls
CombinedRole(content) == convertRole(content.Role)

\* The loop over content.Parts keeps st = [textParts, toolCalls, messages, err];
\* a non-empty err is the early "return nil, err".

\* if part.Text != "" { ... }
PartText(part, st) ==
    IF part.Text /= "" THEN [st EXCEPT !.textParts = Append(@, part.Text)]
    ELSE st

\* if part.FunctionCall != nil { ... }, argsJSON being what json.Marshal returned
PartFunctionCall(fc, argsJSON, st) ==
    IF argsJSON.err /= ""
    THEN [st EXCEPT !.err = "failed to marshal function call args: " \o argsJSON.err]
    ELSE [st EXCEPT !.toolCalls = Append(@, FunctionCallToolCall(fc, argsJSON.json))]

\* PartFunctionResponse with the error of json.Marshal discarded
PartFunctionResponseIgnoresError(fr, responseJSON, st) ==
    [st EXCEPT !.messages = Append(@, FunctionResponseMessage(fr, responseJSON.json))]

\* if part.FunctionResponse != nil { ... }
PartFunctionResponse(fr, responseJSON, st) ==
    IF responseJSON.err /= ""
    THEN [st EXCEPT !.err = "failed to marshal function response: " \o responseJSON.err]
    ELSE [st EXCEPT !.messages = Append(@, FunctionResponseMessage(fr, responseJSON.json))]

FunctionCallStep(part, st) ==
    IF part.FunctionCall /= Nil
    THEN PartFunctionCall(part.FunctionCall[1], Marshal(part.FunctionCall[1].Args), st)
    ELSE st

FunctionResponseStep(part, st) ==
    IF st.err = "" /\ part.FunctionResponse /= Nil
    THEN PartFunctionResponse(part.FunctionResponse[1],
                              Marshal(part.FunctionResponse[1].Response), st)
    ELSE st

\* one iteration of the loop
PartStep(part, st) ==
    FunctionResponseStep(part, FunctionCallStep(part, PartText(part, st)))

RECURSIVE PartsLoop(_, _)
PartsLoop(parts, st) ==
    IF parts = <<>> \/ st.err /= "" THEN st
    ELSE PartsLoop(Tail(parts), PartStep(Head(parts), st))

\* ContentResult that builds the combined message only for tool calls
ContentResultDropsText(content, st) ==
    IF st.err /= "" THEN [messages |-> <<>>, err |-> st.err]
    ELSE IF Len(st.toolCalls) > 0
    THEN [messages |-> Append(st.messages,
              ChatCompletionMessage(CombinedRole(content),
                  IF Len(st.textParts) > 0 THEN joinStrings(st.textParts) ELSE "",
                  st.toolCalls, "")),
          err |-> ""]
    ELSE [messages |-> st.messages, err |-> ""]

\* the message built after the loop, if any, and the return
ContentResult(content, st) ==
    IF st.err /= "" THEN [messages |-> <<>>, err |-> st.err]
    ELSE IF Len(st.textParts) > 0 \/ Len(st.toolCalls) > 0
    THEN [messages |-> Append(st.messages,
              ChatCompletionMessage(CombinedRole(content),
                  IF Len(st.textParts) > 0 THEN joinStrings(st.textParts) ELSE "",
                  st.toolCalls, "")),
          err |-> ""]
    ELSE [messages |-> st.messages, err |-> ""]

\* convertContent: [messages, err]
convertContent(content) ==
    ContentResult(content,
        PartsLoop(content.Parts,
            [textParts |-> <<>>, toolCalls |-> <<>>, messages |-> <<>>, err |-> ""]))

(***************************************************************************)
(* convertRequest                                                          *)
(***************************************************************************)
\* The loop over req.Contents keeps acc = [messages, err, perTurn]; perTurn
\* records what convertContent returned for each turn the loop reached.
ContentsStep(acc, r) ==
    IF r.err /= "" THEN [acc EXCEPT !.err = r.err, !.perTurn = Append(@, r)]
    ELSE [acc EXCEPT !.messages = @ \o r.messages, !.perTurn = Append(@, r)]

RECURSIVE ContentsLoop(_, _)
ContentsLoop(contents, acc) ==
    IF contents = <<>> \/ acc.err /= "" THEN acc
    ELSE ContentsLoop(Tail(contents), ContentsStep(acc, convertContent(Head(contents))))

ConvertedContents(r) ==
    ContentsLoop(r.Contents, [messages |-> <<>>, err |-> "", perTurn |-> <<>>])

\* the system message built from req.Config.SystemInstruction
SystemMessage(instruction) ==
    ChatCompletionMessage("system", extractText(instruction), <<>>, "")

\* WithSystemInstruction that appends the system message
WithSystemInstructionAppended(r, messages) ==
    IF r.Config /= Nil /\ r.Config[1].SystemInstruction /= Nil
    THEN Append(messages, SystemMessage(r.Config[1].SystemInstruction[1]))
    ELSE messages

\* openaiReq.Messages after the system-instruction step
WithSystemInstruction(r, messages) ==
    IF r.Config /= Nil /\ r.Config[1].SystemInstruction /= Nil
    THEN <<SystemMessage(r.Config[1].SystemInstruction[1])>> \o messages
    ELSE messages

\* the generation-config step for a non-nil req.Config; the zero value of a
\* float32 or int field is 0 and of a slice is the empty sequence
ApplyGenerationConfig(c, oreq) ==
    [oreq EXCEPT
        !.Temperature = IF c.Temperature /= Nil THEN c.Temperature[1] ELSE @,
        !.TopP = IF c.TopP /= Nil THEN c.TopP[1] ELSE @,
        !.MaxCompletionTokens = IF c.MaxOutputTokens > 0 THEN c.MaxOutputTokens ELSE @,
        !.Stop = IF Len(c.StopSequences) > 0 THEN c.StopSequences ELSE @]

WithGenerationConfig(r, oreq) ==
    IF r.Config = Nil THEN oreq ELSE ApplyGenerationConfig(r.Config[1], oreq)

ChatCompletionRequest(messages) ==
    [Model |-> newResult[1].m[1].modelName,
     Messages |-> messages, Temperature |-> 0, TopP |-> 0,
     MaxCompletionTokens |-> 0, Stop |-> <<>>, Stream |-> FALSE]

\* what convertRequest returns once the loop over req.Contents has ended
RequestResult(r, loop) ==
    IF loop.err /= ""
    THEN [req |-> ChatCompletionRequest(loop.messages), err |-> loop.err,
          perTurn |-> loop.perTurn]
    ELSE [req |-> WithGenerationConfig(r,
                    ChatCompletionRequest(WithSystemInstruction(r, loop.messages))),
          err |-> "", perTurn |-> loop.perTurn]

\* convertRequest: [req, err], and perTurn for the record
convertRequest(r) == RequestResult(r, ConvertedContents(r))

(***************************************************************************)
(* Values handed to yield: an LLMResponse pointer and an error             *)
(***************************************************************************)
RespValue(r) == [resp |-> <<r>>, err |-> ""]

ErrValue(e) == [resp |-> Nil, err |-> e]

(***************************************************************************)
(* handleNonStreamingResponse                                              *)
(***************************************************************************)
UsageMetadata(usage) ==
    IF usage.TotalTokens > 0
    THEN <<[PromptTokenCount |-> usage.PromptTokens,
            CandidatesTokenCount |-> usage.CompletionTokens,
            TotalTokenCount |-> usage.TotalTokens]>>
    ELSE Nil

\* NonStreamingResponse without "llmResp.TurnComplete = true"
NonStreamingResponseNotMarked(choice, usage) ==
    [convertResponse(choice.Message) EXCEPT
        !.FinishReason = convertFinishReason(choice.FinishReason),
        !.UsageMetadata = UsageMetadata(usage)]

\* the response built from resp.Choices[0]
NonStreamingResponse(choice, usage) ==
    [convertResponse(choice.Message) EXCEPT
        !.TurnComplete = TRUE,
        !.FinishReason = convertFinishReason(choice.FinishReason),
        !.UsageMetadata = UsageMetadata(usage)]

\* the one value handleNonStreamingResponse yields for what
\* CreateChatCompletion returned
NonStreamingValue(res) ==
    IF res.err /= "" THEN ErrValue("openrouter error: " \o res.err)
    ELSE IF Len(res.resp.Choices) = 0
    THEN ErrValue("openrouter returned no choices")
    ELSE RespValue(NonStreamingResponse(res.resp.Choices[1], res.resp.Usage))

(***************************************************************************)
(* handleStreamingResponse                                                 *)
(***************************************************************************)
EmptyToolCall == ToolCall(Nil, "", "", "", "")

\* for len(accumulatedToolCalls) <= idx { append(..., openai.ToolCall{}) }
RECURSIVE Extend(_, _)
Extend(tcs, idx) ==
    IF Len(tcs) <= idx THEN Extend(Append(tcs, EmptyToolCall), idx) ELSE tcs

\* MergeToolCall that replaces the arguments instead of appending the fragment
MergeToolCallOverwrites(slot, tc) ==
    [slot EXCEPT
        !.ID = IF tc.ID /= "" THEN tc.ID ELSE @,
        !.Type = IF tc.Type /= "" THEN tc.Type ELSE @,
        !.Function.Name = IF tc.Function.Name /= "" THEN tc.Function.Name ELSE @,
        !.Function.Arguments = tc.Function.Arguments]

\* the merge of one delta into its slot
MergeToolCall(slot, tc) ==
    [slot EXCEPT
        !.ID = IF tc.ID /= "" THEN tc.ID ELSE @,
        !.Type = IF tc.Type /= "" THEN tc.Type ELSE @,
        !.Function.Name = IF tc.Function.Name /= "" THEN tc.Function.Name ELSE @,
        !.Function.Arguments = @ \o tc.Function.Arguments]

MergeAt(tcs, i, tc) == [tcs EXCEPT ![i] = MergeToolCall(@, tc)]

\* MergeDelta that reads a missing index as index 0
MergeDeltaNilIsZero(tcs, tc) ==
    IF tc.Index /= Nil THEN MergeAt(Extend(tcs, tc.Index[1]), tc.Index[1] + 1, tc)
    ELSE MergeAt(Extend(tcs, 0), 1, tc)

\* the body of "for _, tc := range delta.ToolCalls"
MergeDelta(tcs, tc) ==
    IF tc.Index /= Nil THEN MergeAt(Extend(tcs, tc.Index[1]), tc.Index[1] + 1, tc)
    ELSE tcs

RECURSIVE AccumulateToolCalls(_, _)
AccumulateToolCalls(tcs, deltas) ==
    IF deltas = <<>> THEN tcs
    ELSE AccumulateToolCalls(MergeDelta(tcs, Head(deltas)), Tail(deltas))

\* PartialResponse built from the accumulated text instead of the increment
PartialResponseAccumulated(text) ==
    [LLMResponse(<<TextPart(accumulatedContent \o text)>>) EXCEPT !.Partial = TRUE]

\* the Partial response yielded for a text increment
PartialResponse(text) ==
    [LLMResponse(<<TextPart(text)>>) EXCEPT !.Partial = TRUE]

\* FinalResponse without "llmResp.TurnComplete = true"
FinalResponseNotMarked(content, toolCalls, finishReason) ==
    [convertResponse(ChatCompletionMessage("assistant", content, toolCalls, ""))
        EXCEPT !.FinishReason = convertFinishReason(finishReason)]

\* the final response built when finishReason /= ""
FinalResponse(content, toolCalls, finishReason) ==
    [convertResponse(ChatCompletionMessage("assistant", content, toolCalls, ""))
        EXCEPT !.TurnComplete = TRUE, !.Partial = FALSE,
               !.FinishReason = convertFinishReason(finishReason)]

(***************************************************************************)
(* Inputs: requests.                                                       *)
(***************************************************************************)
Roles == {"user", "model", "assistant", "system", "tool", "USER", ""}

Content(role, parts) == [Role |-> role, Parts |-> parts]

\* text, function-call and function-response parts, and parts with more than
\* one field set (genai.Part is a struct, nothing keeps two fields from being set)
Parts ==
    { TextPart(""), TextPart("a"), TextPart("b") }
    \cup { FunctionCallPart("c1", "f", m) :
             m \in {NilMap, MkMap({<<"a", "1">>}), MkMap({<<"a", "chan">>})} }
    \cup { FunctionCallPart("c2", "g", MkMap({<<"a", "1">>, <<"b", "s">>})) }
    \cup { FunctionResponsePart("c1", "f", m) :
             m \in {MkMap({}), MkMap({<<"b", "s">>}), MkMap({<<"a", "1">>, <<"b", "chan">>})} }
    \cup { FunctionResponsePart("c2", "g", MkMap({<<"a", "s">>, <<"b", "1">>})) }
    \cup { [FunctionCallPart("c1", "f", MkMap({<<"a", "1">>})) EXCEPT !.Text = "b"],
           [FunctionResponsePart("c2", "g", MkMap({})) EXCEPT
               !.FunctionCall = <<[ID |-> "c2", Name |-> "g", Args |-> NilMap]>>] }

SeqsUpTo(S, n) == UNION { [1..k -> S] : k \in 0..n }

RichTurns == { Content(r, ps) : r \in Roles, ps \in SeqsUpTo(Parts, MaxParts) }

SimpleTurns ==
    { Content("user", <<TextPart("a")>>),
      Content("model", <<TextPart("b")>>),
      Content("system", <<TextPart("a"), TextPart("b")>>),
      Content("model", <<FunctionCallPart("c1", "f", MkMap({<<"a", "1">>}))>>),
      Content("tool", <<FunctionResponsePart("c1", "f", MkMap({<<"b", "s">>}))>>),
      Content("user", <<>>),
      Content("model", <<FunctionCallPart("c1", "f", MkMap({<<"a", "chan">>}))>>) }

GenerateContentConfig(sys, temperature, topP, maxTokens, stop) ==
    [SystemInstruction |-> sys, Temperature |-> temperature, TopP |-> topP,
     MaxOutputTokens |-> maxTokens, StopSequences |-> stop]

SystemInstructions ==
    { Nil, <<Content("", <<TextPart("a"), TextPart("b")>>)>>,
      <<Content("system", <<>>)>> }

Configs ==
    { Nil }
    \cup { <<GenerateContentConfig(sys, t, t, n, st)>> :
             sys \in SystemInstructions, t \in {Nil, <<0>>, <<1>>},
             n \in {0, 1}, st \in {<<>>, <<"a">>} }

LLMRequest(contents, config) == [Contents |-> contents, Config |-> config]

\* requests convertRequest is applied to
ConvertRequests ==
    { LLMRequest(<<t>>, c) : t \in RichTurns,
        c \in {Nil, <<GenerateContentConfig(
                        <<Content("", <<TextPart("a"), TextPart("b")>>)>>,
                        Nil, Nil, 0, <<>>)>>} }
    \cup { LLMRequest(ts, c) : ts \in SeqsUpTo(SimpleTurns, MaxTurns), c \in Configs }

\* requests GenerateContent is called with in non-streaming mode
CallParts ==
    { TextPart("a"),
      FunctionCallPart("c1", "f", MkMap({<<"a", "1">>})),
      FunctionCallPart("c1", "f", MkMap({<<"a", "chan">>})),
      FunctionResponsePart("c1", "f", MkMap({<<"b", "s">>})),
      FunctionResponsePart("c1", "f", MkMap({<<"a", "1">>, <<"b", "chan">>})) }

CallRequests ==
    { LLMRequest(<<Content("model", ps)>>, Nil) : ps \in SeqsUpTo(CallParts, MaxParts) }
    \cup { LLMRequest(<<>>, Nil) }

\* requests GenerateContent is called with in streaming mode
StreamRequests ==
    { LLMRequest(<<Content("user", <<TextPart("a")>>)>>, Nil),
      LLMRequest(<<Content("model", <<FunctionCallPart("c1", "f", MkMap({<<"a", "chan">>}))>>)>>, Nil),
      LLMRequest(<<Content("user", <<TextPart("a")>>),
                   Content("tool", <<FunctionResponsePart("c1", "f",
                                        MkMap({<<"a", "1">>, <<"b", "chan">>}))>>)>>, Nil) }

(***************************************************************************)
(* Inputs: what the provider returns.                                      *)
(***************************************************************************)
Usages ==
    { [PromptTokens |-> 0, CompletionTokens |-> 0, TotalTokens |-> 0],
      [PromptTokens |-> 1, CompletionTokens |-> 2, TotalTokens |-> 3] }

ReplyMessages ==
    { ChatCompletionMessage("assistant", c, tcs, "") :
        c \in {"", "a"},
        tcs \in { <<>>,
                  <<ToolCall(Nil, "x", "function", "f", "{\"a\":1}")>>,
                  <<ToolCall(Nil, "y", "other", "g", "{}"),
                    ToolCall(Nil, "x", "function", "f", "{")>>,
                  <<ToolCall(Nil, "x", "function", "f", ""),
                    ToolCall(Nil, "z", "function", "h", "{\"b\":\"s\"}")>> } }

ProviderFinishReasons ==
    {"stop", "length", "tool_calls", "function_call", "content_filter", ""}

\* what CreateChatCompletion returns: [resp, err]
Completions ==
    { [resp |-> [Choices |-> <<>>, Usage |-> u], err |-> e] :
        u \in Usages, e \in {"", "boom"} }
    \cup { [resp |-> [Choices |-> <<[Message |-> m, FinishReason |-> f]>>,
                      Usage |-> u], err |-> ""] :
             m \in ReplyMessages, f \in ProviderFinishReasons, u \in Usages }

Indices == {Nil} \cup { <<i>> : i \in 0..MaxIndex }

\* the tool-call deltas of the model: a typed header, an untyped header that
\* carries arguments, and argument fragments
ToolCallDeltas ==
    { ToolCall(ix, "x", "function", "f", "") : ix \in Indices }
    \cup { ToolCall(<<MaxIndex>>, "y", "", "g", "}") }
    \cup { ToolCall(ix, "", "", "", "{") : ix \in Indices \ {Nil} }
    \cup { ToolCall(<<0>>, "", "", "", "}") }

Choice(content, toolCalls, finishReason) ==
    [Delta |-> [Content |-> content, ToolCalls |-> toolCalls],
     FinishReason |-> finishReason]

\* the chunks stream.Recv() may return
Chunks ==
    { [Choices |-> <<>>] }
    \cup { [Choices |-> <<Choice(c, <<>>, "")>>] : c \in {"", "a", "b"} }
    \cup { [Choices |-> <<Choice("", <<d>>, "")>>] : d \in ToolCallDeltas }
    \cup { [Choices |-> <<Choice("", <<>>, f)>>] : f \in {"stop", "length", "eos"} }
    \cup { [Choices |-> <<Choice("", <<ToolCall(<<0>>, "x", "function", "f", "{"),
                                       ToolCall(<<MaxIndex>>, "", "", "", "}")>>, "")>>],
           [Choices |-> <<Choice("a", <<ToolCall(<<0>>, "x", "function", "f", "")>>, "")>>],
           [Choices |-> <<Choice("a", <<>>, "stop")>>],
           [Choices |-> <<Choice("b", <<ToolCall(<<0>>, "x", "function", "f", "{}")>>,
                                 "tool_calls")>>],
           [Choices |-> <<Choice("", <<ToolCall(<<0>>, "", "", "", "}")>>,
                                 "tool_calls")>>] }

RecvErrors == {"unexpected EOF in body"}

(***************************************************************************)
(* GenerateContent: the iterator function, one action per step between     *)
(* two suspensions.                                                        *)
(***************************************************************************)
RecvChunkResult(c) == [chunk |-> <<c>>, err |-> ""]

RecvErrResult(e) == [chunk |-> Nil, err |-> e]

StreamIdle ==
    UNCHANGED <<handle, closeCount, recvLog, cur, accumulatedContent,
                accumulatedToolCalls, consumerStopped>>

\* a return of handleStreamingResponse after "defer stream.Close()"
StreamReturn ==
    /\ handle' = "closed"
    /\ closeCount' = closeCount + 1
    /\ pc' = "done"

Converted(r) ==
    /\ openaiReq' = <<[req |-> r.req, err |-> r.err]>>
    /\ turnMsgs' = r.perTurn

\* openaiReq, err := m.convertRequest(req)
ConvertRequest ==
    /\ pc = "start"
    /\ Converted(convertRequest(req))
    /\ pc' = "converted"
    /\ UNCHANGED <<newArgs, newResult, req, stream, netCalls, completion, emitted>>
    /\ StreamIdle

\* convertRequest has failed: the error is yielded and the function returns
ConvertFails ==
    /\ pc = "converted"
    /\ openaiReq[1].err /= ""
    /\ emitted' = Append(emitted,
          ErrValue("failed to convert request: " \o openaiReq[1].err))
    /\ pc' = "done"
    /\ UNCHANGED <<newArgs, newResult, req, stream, openaiReq, netCalls, completion, turnMsgs>>
    /\ StreamIdle

\* handleNonStreamingResponse, for what CreateChatCompletion returns
NonStreamingCall(res) ==
    /\ pc = "converted"
    /\ openaiReq[1].err = ""
    /\ ~stream
    /\ netCalls' = netCalls + 1
    /\ completion' = <<res>>
    /\ emitted' = Append(emitted, NonStreamingValue(res))
    /\ pc' = "done"
    /\ UNCHANGED <<newArgs, newResult, req, stream, openaiReq, turnMsgs>>
    /\ StreamIdle

\* handleStreamingResponse: CreateChatCompletionStream fails
OpenStreamFails(e) ==
    /\ pc = "converted"
    /\ openaiReq[1].err = ""
    /\ stream
    /\ netCalls' = netCalls + 1
    /\ emitted' = Append(emitted, ErrValue("openrouter stream error: " \o e))
    /\ pc' = "done"
    /\ UNCHANGED <<newArgs, newResult, req, stream, openaiReq, completion, turnMsgs>>
    /\ StreamIdle

\* handleStreamingResponse: the stream is acquired, its Close is deferred
OpenStream ==
    /\ pc = "converted"
    /\ openaiReq[1].err = ""
    /\ stream
    /\ netCalls' = netCalls + 1
    /\ handle' = "open"
    /\ pc' = "recv"
    /\ UNCHANGED <<newArgs, newResult, req, stream, openaiReq, completion, turnMsgs, closeCount, recvLog, cur,
                   accumulatedContent, accumulatedToolCalls, emitted,
                   consumerStopped>>

\* the rest of a loop iteration after the content block: the tool-call
\* merge and the finish check
FinishCheck(choice, tcs) ==
    /\ accumulatedToolCalls' = tcs
    /\ IF choice.FinishReason /= ""
       THEN /\ emitted' = Append(emitted,
                  RespValue(FinalResponse(accumulatedContent, tcs,
                                          choice.FinishReason)))
            /\ StreamReturn
       ELSE /\ pc' = "recv"
            /\ UNCHANGED <<emitted, handle, closeCount>>

AfterContent(choice) ==
    FinishCheck(choice,
        AccumulateToolCalls(accumulatedToolCalls, choice.Delta.ToolCalls))

\* RecvEOF that flushes the accumulated state as a final response
RecvEOFFlushes ==
    /\ pc = "recv"
    /\ recvLog' = Append(recvLog, [chunk |-> Nil, err |-> "EOF"])
    /\ emitted' = Append(emitted,
          RespValue([convertResponse(ChatCompletionMessage("assistant",
                        accumulatedContent, accumulatedToolCalls, ""))
                     EXCEPT !.TurnComplete = TRUE]))
    /\ StreamReturn
    /\ UNCHANGED <<newArgs, newResult, req, stream, openaiReq, netCalls, completion, cur,
                   accumulatedContent, accumulatedToolCalls, consumerStopped,
                   turnMsgs>>

\* stream.Recv() returns io.EOF: break, return
RecvEOF ==
    /\ pc = "recv"
    /\ recvLog' = Append(recvLog, RecvErrResult("EOF"))
    /\ StreamReturn
    /\ UNCHANGED <<newArgs, newResult, req, stream, openaiReq, netCalls, completion, cur, accumulatedContent,
                   accumulatedToolCalls, emitted, consumerStopped, turnMsgs>>

\* RecvError without the return after the yield
RecvErrorContinues(e) ==
    /\ pc = "recv"
    /\ recvLog' = Append(recvLog, [chunk |-> Nil, err |-> e])
    /\ emitted' = Append(emitted, ErrValue("openrouter stream recv error: " \o e))
    /\ UNCHANGED <<newArgs, newResult, req, stream, pc, openaiReq, netCalls, completion, handle,
                   closeCount, cur, accumulatedContent, accumulatedToolCalls,
                   consumerStopped, turnMsgs>>

\* stream.Recv() returns another error: it is yielded, return
RecvError(e) ==
    /\ pc = "recv"
    /\ recvLog' = Append(recvLog, RecvErrResult(e))
    /\ emitted' = Append(emitted, ErrValue("openrouter stream recv error: " \o e))
    /\ StreamReturn
    /\ UNCHANGED <<newArgs, newResult, req, stream, openaiReq, netCalls, completion, cur, accumulatedContent,
                   accumulatedToolCalls, consumerStopped, turnMsgs>>

\* the content block of a loop iteration: TRUE when the iteration suspends in
\* the yield of a Partial response
YieldsPartial(choice) == choice.Delta.Content /= ""

\* Iteration that assigns the increment to accumulatedContent
IterationOverwrites(choice) ==
    IF YieldsPartial(choice)
    THEN /\ accumulatedContent' = choice.Delta.Content
         /\ emitted' = Append(emitted, RespValue(PartialResponse(choice.Delta.Content)))
         /\ cur' = <<choice>>
         /\ pc' = "yield"
         /\ UNCHANGED <<accumulatedToolCalls, handle, closeCount>>
    ELSE /\ AfterContent(choice)
         /\ UNCHANGED <<cur, accumulatedContent>>

\* the loop iteration for chunk.Choices[0], up to its first yield
Iteration(choice) ==
    IF YieldsPartial(choice)
    THEN /\ accumulatedContent' = accumulatedContent \o choice.Delta.Content
         /\ emitted' = Append(emitted, RespValue(PartialResponse(choice.Delta.Content)))
         /\ cur' = <<choice>>
         /\ pc' = "yield"
         /\ UNCHANGED <<accumulatedToolCalls, handle, closeCount>>
    ELSE /\ AfterContent(choice)
         /\ UNCHANGED <<cur, accumulatedContent>>

\* stream.Recv() returns a chunk
RecvChunk(c) ==
    /\ pc = "recv"
    /\ Len(recvLog) < MaxChunks
    /\ recvLog' = Append(recvLog, RecvChunkResult(c))
    /\ IF Len(c.Choices) = 0
       THEN UNCHANGED <<pc, cur, accumulatedContent, accumulatedToolCalls,
                        emitted, handle, closeCount>>
       ELSE Iteration(c.Choices[1])
    /\ UNCHANGED <<newArgs, newResult, req, stream, openaiReq, netCalls, completion, consumerStopped, turnMsgs>>

\* yield of a Partial response returns true: the iteration goes on
ConsumerContinues ==
    /\ pc = "yield"
    /\ AfterContent(cur[1])
    /\ cur' = Nil
    /\ UNCHANGED <<newArgs, newResult, req, stream, openaiReq, netCalls, completion, recvLog, accumulatedContent,
                   consumerStopped, turnMsgs>>

\* ConsumerStops that goes on with the iteration after yield returned false
ConsumerStopsGoesOn ==
    /\ pc = "yield"
    /\ consumerStopped' = TRUE
    /\ cur' = Nil
    /\ AfterContent(cur[1])
    /\ UNCHANGED <<newArgs, newResult, req, stream, openaiReq, netCalls, completion,
                   recvLog, accumulatedContent, turnMsgs>>

\* ConsumerStops with stream.Close() called after the loop instead of deferred
ConsumerStopsLeaks ==
    /\ pc = "yield"
    /\ consumerStopped' = TRUE
    /\ cur' = Nil
    /\ pc' = "done"
    /\ UNCHANGED <<newArgs, newResult, req, stream, openaiReq, netCalls, completion, recvLog, handle,
                   closeCount, accumulatedContent, accumulatedToolCalls, emitted,
                   turnMsgs>>

\* yield of a Partial response returns false: return
ConsumerStops ==
    /\ pc = "yield"
    /\ consumerStopped' = TRUE
    /\ cur' = Nil
    /\ StreamReturn
    /\ UNCHANGED <<newArgs, newResult, req, stream, openaiReq, netCalls, completion, recvLog, accumulatedContent,
                   accumulatedToolCalls, emitted, turnMsgs>>

\* the arguments of the construction the calls of the model start from
DefaultNewArgs ==
    [modelName |-> "openai/gpt-4", cfg |-> <<OpenRouterConfig("k1", "")>>]

\* m has been constructed
Constructed ==
    /\ newArgs = DefaultNewArgs
    /\ newResult = <<NewOpenRouterModel(newArgs.modelName, newArgs.cfg)>>

InitCall ==
    /\ pc = "start"
    /\ openaiReq = Nil
    /\ netCalls = 0
    /\ completion = Nil
    /\ handle = "none"
    /\ closeCount = 0
    /\ recvLog = <<>>
    /\ cur = Nil
    /\ accumulatedContent = ""
    /\ accumulatedToolCalls = <<>>
    /\ emitted = <<>>
    /\ consumerStopped = FALSE
    /\ turnMsgs = <<>>

Init ==
    /\ \/ stream = FALSE /\ req \in CallRequests
       \/ stream = TRUE /\ req \in StreamRequests
    /\ Constructed
    /\ InitCall

Next ==
    \/ ConvertRequest
    \/ ConvertFails
    \/ \E res \in Completions : NonStreamingCall(res)
    \/ \E e \in {"boom"} : OpenStreamFails(e)
    \/ OpenStream
    \/ RecvEOF
    \/ \E e \in RecvErrors : RecvError(e)
    \/ \E c \in Chunks : RecvChunk(c)
    \/ ConsumerContinues
    \/ ConsumerStops

Spec == Init /\ [][Next]_vars

(***************************************************************************)
(* convertRequest applied on its own.                                      *)
(***************************************************************************)
InitConvert ==
    /\ req \in ConvertRequests
    /\ stream = FALSE
    /\ Constructed
    /\ InitCall

NextConvert == ConvertRequest

SpecConvert == InitConvert /\ [][NextConvert]_vars

(***************************************************************************)
(* GenerateContent called in streaming mode.                               *)
(***************************************************************************)
InitStream ==
    /\ stream = TRUE
    /\ req \in StreamRequests
    /\ Constructed
    /\ InitCall

NextStream ==
    \/ ConvertRequest
    \/ ConvertFails
    \/ \E e \in {"boom"} : OpenStreamFails(e)
    \/ OpenStream
    \/ RecvEOF
    \/ \E e \in RecvErrors : RecvError(e)
    \/ \E c \in Chunks : RecvChunk(c)
    \/ ConsumerContinues
    \/ ConsumerStops

SpecStream == InitStream /\ [][NextStream]_vars

(***************************************************************************)
(* NewOpenRouterModel applied on its own.                                  *)
(***************************************************************************)
ModelNames == {"openai/gpt-4", "anthropic/claude-3-opus", "m", "n", ""}

OpenRouterConfigs ==
    { Nil }
    \cup { <<OpenRouterConfig(k, u)>> :
             k \in {"", "k1", "k2"},
             u \in {"", "https://openrouter.ai/api/v1", "http://localhost:8080/v1", "u"} }

\* m, err := NewOpenRouterModel(modelName, cfg)
CallNewOpenRouterModel ==
    /\ newResult = Nil
    /\ newResult' = <<NewOpenRouterModel(newArgs.modelName, newArgs.cfg)>>
    /\ UNCHANGED <<newArgs, req, stream, pc, openaiReq, netCalls, completion,
                   emitted, turnMsgs>>
    /\ StreamIdle

InitNew ==
    /\ newArgs \in [modelName : ModelNames, cfg : OpenRouterConfigs]
    /\ newResult = Nil
    /\ req = LLMRequest(<<>>, Nil)
    /\ stream = FALSE
    /\ InitCall

NextNew == CallNewOpenRouterModel

SpecNew == InitNew /\ [][NextNew]_vars

(***************************************************************************)
(* What a run has read and emitted.                                        *)
(***************************************************************************)
\* chunk.Choices[0] of the i-th Recv result, as a pointer
LogChoice(i) ==
    IF recvLog[i].chunk /= Nil /\ Len(recvLog[i].chunk[1].Choices) > 0
    THEN <<recvLog[i].chunk[1].Choices[1]>>
    ELSE Nil

LogText(i) == IF LogChoice(i) = Nil THEN "" ELSE LogChoice(i)[1].Delta.Content

LogFinish(i) == IF LogChoice(i) = Nil THEN "" ELSE LogChoice(i)[1].FinishReason

LogDeltas(i) == IF LogChoice(i) = Nil THEN <<>> ELSE LogChoice(i)[1].Delta.ToolCalls

TextChunks == {i \in 1..Len(recvLog) : LogText(i) /= ""}

FinishChunks == {i \in 1..Len(recvLog) : LogFinish(i) /= ""}

ReadFailures == {i \in 1..Len(recvLog) : recvLog[i].err \notin {"", "EOF"}}

\* the non-empty text increments of the first n Recv results, in order
RECURSIVE LogTexts(_)
LogTexts(n) ==
    IF n = 0 THEN <<>>
    ELSE LogTexts(n - 1) \o (IF LogText(n) /= "" THEN <<LogText(n)>> ELSE <<>>)

\* the text increments of the first n Recv results, concatenated
RECURSIVE ReceivedText(_)
ReceivedText(n) == IF n = 0 THEN "" ELSE ReceivedText(n - 1) \o LogText(n)

IsError(v) == v.err /= ""

IsFinal(v) == v.resp /= Nil /\ v.resp[1].TurnComplete

IsPartial(v) == v.resp /= Nil /\ v.resp[1].Partial

Errors == {i \in 1..Len(emitted) : IsError(emitted[i])}

Finals == {i \in 1..Len(emitted) : IsFinal(emitted[i])}

\* the text of a response: the Text fields of its parts, concatenated
RECURSIVE PartsText(_)
PartsText(parts) ==
    IF parts = <<>> THEN "" ELSE Head(parts).Text \o PartsText(Tail(parts))

\* v is a Partial, model-role response made of the one text t
IsPartialOf(v, t) ==
    /\ v.err = ""
    /\ v.resp /= Nil
    /\ v.resp[1].Partial
    /\ ~v.resp[1].TurnComplete
    /\ v.resp[1].Content.Role = "model"
    /\ v.resp[1].Content.Parts = <<[Text |-> t, FunctionCall |-> <<>>,
                                    FunctionResponse |-> <<>>]>>

\* vs is exactly the Partial responses of the texts ts, in order
ArePartialsOf(vs, ts) ==
    /\ Len(vs) = Len(ts)
    /\ \A k \in 1..Len(vs) : IsPartialOf(vs[k], ts[k])

Last(seq) == seq[Len(seq)]

Front(seq) == SubSeq(seq, 1, Len(seq) - 1)

(***************************************************************************)
(* C1: in a streaming call whose consumer has not stopped, a chunk with a  *)
(* non-empty finish reason is the last thing read; once its iteration has  *)
(* run, exactly one final response has been emitted, it is the last value, *)
(* with Partial false, TurnComplete true, the mapped finish reason and the *)
(* concatenation of every text increment read; the call is over and the    *)
(* stream closed. Without such a chunk there is no final response.         *)
(***************************************************************************)
C1_FinalOnFinish ==
    (stream /\ ~consumerStopped) =>
        /\ Cardinality(FinishChunks) <= 1
        /\ FinishChunks = {} => Finals = {}
        /\ \A i \in FinishChunks :
              /\ i = Len(recvLog)
              /\ pc \in {"yield", "done"}
              /\ pc = "yield" => Finals = {}
              /\ pc = "done" =>
                    /\ Finals = {Len(emitted)}
                    /\ Last(emitted).err = ""
                    /\ ~Last(emitted).resp[1].Partial
                    /\ Last(emitted).resp[1].TurnComplete
                    /\ Last(emitted).resp[1].FinishReason
                          = convertFinishReason(LogFinish(i))
                    /\ Last(emitted).resp[1].Content.Role = "model"
                    /\ PartsText(Last(emitted).resp[1].Content.Parts)
                          = ReceivedText(i)
                    /\ handle = "closed"

\* two text increments, then a third chunk that finishes, all consumed
C1_Witness ==
    /\ stream /\ ~consumerStopped /\ pc = "done"
    /\ Len(recvLog) = 3
    /\ LogText(1) = "a" /\ LogText(2) = "b" /\ LogFinish(3) = "stop"
    /\ Finals = {3}
    /\ PartsText(emitted[3].resp[1].Content.Parts) = "ab"

(***************************************************************************)
(* C2: in a streaming call the Partial responses emitted are, in order,    *)
(* exactly one per chunk read whose delta text is non-empty, each a        *)
(* model-role response holding that chunk's increment alone; the chunks    *)
(* with neither text nor finish reason add no value to the sequence.       *)
(***************************************************************************)
C2_PartialPerTextChunk ==
    (stream /\ handle /= "none") =>
        /\ ArePartialsOf(SelectSeq(emitted, IsPartial), LogTexts(Len(recvLog)))
        /\ \A k \in 1..Len(emitted) :
              IsPartial(emitted[k]) \/ IsFinal(emitted[k]) \/ IsError(emitted[k])
        /\ Len(emitted) <= Cardinality(TextChunks) + Cardinality(FinishChunks)
                              + Cardinality(ReadFailures)

\* a text chunk after accumulated text, and a chunk of tool-call deltas alone
C2_Witness ==
    /\ stream /\ pc = "recv"
    /\ Len(recvLog) = 3
    /\ LogText(1) = "a" /\ LogText(2) = "b"
    /\ LogText(3) = "" /\ LogFinish(3) = "" /\ LogDeltas(3) /= <<>>
    /\ Len(emitted) = 2
    /\ accumulatedToolCalls /= <<>>

(***************************************************************************)
(* C3: in a streaming call a read failure (an error other than io.EOF) is  *)
(* the last thing read; exactly one error value is emitted for it, as the  *)
(* last value, no final response is emitted, and the values before it are  *)
(* the Partial responses of the text chunks read, as they were delivered.  *)
(***************************************************************************)
C3_ReadFailure ==
    stream =>
        \A i \in ReadFailures :
            /\ i = Len(recvLog)
            /\ pc = "done"
            /\ emitted /= <<>>
            /\ Errors = {Len(emitted)}
            /\ Last(emitted).resp = Nil
            /\ Finals = {}
            /\ ArePartialsOf(Front(emitted), LogTexts(Len(recvLog)))

\* a failure after one Partial response was delivered
C3_Witness ==
    /\ stream /\ pc = "done"
    /\ ReadFailures = {3}
    /\ LogText(1) = "a" /\ LogDeltas(2) /= <<>>
    /\ Len(emitted) = 2

(***************************************************************************)
(* C4: in a streaming call that reads io.EOF before any chunk carried a    *)
(* finish reason, the call ends with no final response and no error,       *)
(* whatever was accumulated.                                               *)
(***************************************************************************)
C4_SilentEOF ==
    (stream /\ recvLog /= <<>> /\ Last(recvLog).err = "EOF" /\ FinishChunks = {}) =>
        /\ pc = "done"
        /\ Finals = {}
        /\ Errors = {}
        /\ ArePartialsOf(emitted, LogTexts(Len(recvLog)))

\* io.EOF with text and tool calls accumulated
C4_Witness ==
    /\ stream /\ pc = "done"
    /\ recvLog /= <<>> /\ Last(recvLog).err = "EOF"
    /\ accumulatedContent = "ab"
    /\ Len(accumulatedToolCalls) = 2

(***************************************************************************)
(* C5: a streaming call that has acquired the stream handle releases it    *)
(* exactly once on every exit: while the call runs the handle is open and  *)
(* Close has not been called; once the call has ended the handle is closed *)
(* and Close has been called once. A call that never acquired the handle   *)
(* never calls Close.                                                      *)
(***************************************************************************)
C5_HandleReleasedOnce ==
    /\ closeCount <= 1
    /\ handle = "none" => closeCount = 0
    /\ handle = "open" => (closeCount = 0 /\ pc \in {"recv", "yield"})
    /\ handle = "closed" => (closeCount = 1 /\ pc = "done")
    /\ pc \in {"recv", "yield"} => handle = "open"

\* the consumer abandoned the sequence after a Partial response
C5_Witness ==
    /\ pc = "done" /\ consumerStopped
    /\ handle = "closed" /\ closeCount = 1
    /\ Len(emitted) = 2

(***************************************************************************)
(* C6: a non-streaming call emits nothing before it ends and exactly one   *)
(* value when it ends: an error when convertRequest failed (no network     *)
(* call then), when the provider call failed or when the reply has zero    *)
(* choices; otherwise one turn-complete response with the mapped finish    *)
(* reason of the first choice. It makes at most one network call.          *)
(***************************************************************************)
C6_NonStreamingOneValue ==
    ~stream =>
        /\ netCalls <= 1
        /\ handle = "none"
        /\ pc /= "done" => (emitted = <<>> /\ netCalls = 0)
        /\ pc = "done" =>
              /\ Len(emitted) = 1
              /\ (emitted[1].resp /= Nil) <=> (emitted[1].err = "")
              /\ IF openaiReq[1].err /= ""
                 THEN IsError(emitted[1]) /\ netCalls = 0 /\ completion = Nil
                 ELSE /\ netCalls = 1
                      /\ completion /= Nil
                      /\ IF completion[1].err /= ""
                            \/ Len(completion[1].resp.Choices) = 0
                         THEN IsError(emitted[1])
                         ELSE /\ emitted[1].resp /= Nil
                              /\ emitted[1].resp[1].TurnComplete
                              /\ emitted[1].resp[1].FinishReason =
                                    convertFinishReason(
                                        completion[1].resp.Choices[1].FinishReason)

\* a reply cut by the token limit
C6_Witness ==
    /\ ~stream /\ pc = "done" /\ netCalls = 1
    /\ Len(emitted) = 1
    /\ emitted[1].resp /= Nil
    /\ emitted[1].resp[1].TurnComplete
    /\ emitted[1].resp[1].FinishReason = "MAX_TOKENS"

(***************************************************************************)
(* C7: convertRequest fails exactly when some FunctionCall's Args or some  *)
(* FunctionResponse's Response in the turns cannot be serialized; after a  *)
(* failure the call, streaming or not, issues no network call and ends     *)
(* with exactly one value, an error; after a success nothing is emitted    *)
(* before the network call.                                                *)
(***************************************************************************)
Unserializable(m) == \E e \in m.kv : e[2] = "chan"

HasUnserializable(r) ==
    \E i \in 1..Len(r.Contents) : \E k \in 1..Len(r.Contents[i].Parts) :
        \/ /\ r.Contents[i].Parts[k].FunctionCall /= Nil
           /\ Unserializable(r.Contents[i].Parts[k].FunctionCall[1].Args)
        \/ /\ r.Contents[i].Parts[k].FunctionResponse /= Nil
           /\ Unserializable(r.Contents[i].Parts[k].FunctionResponse[1].Response)

C7_EncodingErrorBeforeNetwork ==
    pc /= "start" =>
        /\ (openaiReq[1].err /= "") <=> HasUnserializable(req)
        /\ openaiReq[1].err /= "" =>
              /\ netCalls = 0 /\ handle = "none" /\ completion = Nil
              /\ pc \in {"converted", "done"}
              /\ pc = "converted" => emitted = <<>>
              /\ pc = "done" =>
                    (Len(emitted) = 1 /\ IsError(emitted[1]) /\ emitted[1].resp = Nil)
        /\ (openaiReq[1].err = "" /\ netCalls = 0) => emitted = <<>>

\* a streaming call whose second turn holds an unserializable response
C7_Witness ==
    /\ stream /\ pc = "done"
    /\ Len(req.Contents) = 2
    /\ HasUnserializable(req)
    /\ Len(emitted) = 1 /\ IsError(emitted[1])
    /\ netCalls = 0

(***************************************************************************)
(* What convertContent is expected to build from a turn.                   *)
(***************************************************************************)
HasFunctionCall(turn) == \E k \in 1..Len(turn.Parts) : turn.Parts[k].FunctionCall /= Nil

\* the tool calls of the parts, in part order
RECURSIVE ExpectedToolCalls(_)
ExpectedToolCalls(parts) ==
    IF parts = <<>> THEN <<>>
    ELSE (IF Head(parts).FunctionCall /= Nil
          THEN <<[Index |-> <<>>, ID |-> Head(parts).FunctionCall[1].ID,
                  Type |-> "function",
                  Function |-> [Name |-> Head(parts).FunctionCall[1].Name,
                                Arguments |-> Marshal(Head(parts).FunctionCall[1].Args).json]]>>
          ELSE <<>>) \o ExpectedToolCalls(Tail(parts))

\* the tool messages of the parts, in part order
RECURSIVE ExpectedToolMessages(_)
ExpectedToolMessages(parts) ==
    IF parts = <<>> THEN <<>>
    ELSE (IF Head(parts).FunctionResponse /= Nil
          THEN <<[Role |-> "tool",
                  Content |-> Marshal(Head(parts).FunctionResponse[1].Response).json,
                  ToolCalls |-> <<>>,
                  ToolCallID |-> Head(parts).FunctionResponse[1].ID]>>
          ELSE <<>>) \o ExpectedToolMessages(Tail(parts))

\* the messages of a conversion that carry tool calls
WithToolCalls(messages) == {k \in 1..Len(messages) : messages[k].ToolCalls /= <<>>}

\* the combined message of a turn with function calls, but for its role
CombinedMessageCarries(turn, messages) ==
    /\ WithToolCalls(messages) = {Len(messages)}
    /\ Last(messages).ToolCalls = ExpectedToolCalls(turn.Parts)
    /\ Last(messages).Content = PartsText(turn.Parts)
    /\ Last(messages).ToolCallID = ""

(***************************************************************************)
(* C8: every converted turn with at least one FunctionCall part, whatever  *)
(* its role, yields exactly one message with tool calls: it carries all    *)
(* the turn's function calls in part order (type "function", id and name   *)
(* kept, arguments JSON-encoded) and the concatenation of the turn's text, *)
(* and its role is assistant.                                              *)
(***************************************************************************)
C8_CombinedMessageIsAssistant ==
    \A i \in 1..Len(turnMsgs) :
        (turnMsgs[i].err = "" /\ HasFunctionCall(req.Contents[i])) =>
            /\ CombinedMessageCarries(req.Contents[i], turnMsgs[i].messages)
            /\ Last(turnMsgs[i].messages).Role = "assistant"

(***************************************************************************)
(* C9: for every converted turn the first messages are, in part order, one *)
(* tool-role message per FunctionResponse part, with the part's id as      *)
(* ToolCallID, the JSON-encoded response as content and no tool calls; at  *)
(* most the turn's combined message follows them.                          *)
(***************************************************************************)
C9_ToolMessagePerFunctionResponse ==
    \A i \in 1..Len(turnMsgs) :
        turnMsgs[i].err = "" =>
            /\ Len(turnMsgs[i].messages)
                  >= Len(ExpectedToolMessages(req.Contents[i].Parts))
            /\ Len(turnMsgs[i].messages)
                  <= Len(ExpectedToolMessages(req.Contents[i].Parts)) + 1
            /\ SubSeq(turnMsgs[i].messages, 1,
                      Len(ExpectedToolMessages(req.Contents[i].Parts)))
                  = ExpectedToolMessages(req.Contents[i].Parts)

\* a tool turn with text between two function responses
C9_Witness ==
    /\ pc = "converted"
    /\ Len(turnMsgs) = 1 /\ turnMsgs[1].err = ""
    /\ req.Contents[1].Role = "tool"
    /\ Len(req.Contents[1].Parts) = 2
    /\ req.Contents[1].Parts[1].FunctionResponse /= Nil
    /\ req.Contents[1].Parts[1].FunctionResponse[1].ID = "c2"
    /\ req.Contents[1].Parts[2].FunctionResponse /= Nil
    /\ req.Contents[1].Parts[2].FunctionResponse[1].ID = "c1"
    /\ Len(turnMsgs[1].messages) = 2
    /\ turnMsgs[1].messages[1].Content = "{\"a\":\"s\",\"b\":1}"

(***************************************************************************)
(* C10: after a successful convertRequest, with a system instruction the   *)
(* first message is one system-role message holding the instruction's      *)
(* concatenated text, also when a turn has the system role, and the        *)
(* messages of the turns follow it in turn order; without a system         *)
(* instruction the messages are those of the turns in turn order.          *)
(***************************************************************************)
RECURSIVE TurnDerived(_)
TurnDerived(contents) ==
    IF contents = <<>> THEN <<>>
    ELSE convertContent(Head(contents)).messages \o TurnDerived(Tail(contents))

HasSystemInstruction(r) == r.Config /= Nil /\ r.Config[1].SystemInstruction /= Nil

C10_SystemInstructionFirst ==
    (pc = "converted" /\ openaiReq[1].err = "") =>
        IF HasSystemInstruction(req)
        THEN /\ Len(openaiReq[1].req.Messages) = 1 + Len(TurnDerived(req.Contents))
             /\ Head(openaiReq[1].req.Messages) =
                   [Role |-> "system",
                    Content |-> PartsText(req.Config[1].SystemInstruction[1].Parts),
                    ToolCalls |-> <<>>, ToolCallID |-> ""]
             /\ Tail(openaiReq[1].req.Messages) = TurnDerived(req.Contents)
        ELSE openaiReq[1].req.Messages = TurnDerived(req.Contents)

\* a system instruction on a request that already has a system turn
C10_Witness ==
    /\ pc = "converted" /\ openaiReq[1].err = ""
    /\ HasSystemInstruction(req)
    /\ Len(req.Contents) = 2
    /\ req.Contents[2].Role = "system"
    /\ Len(openaiReq[1].req.Messages) = 3
    /\ openaiReq[1].req.Messages[1].Content = "ab"
    /\ openaiReq[1].req.Messages[3].Role = "system"

(***************************************************************************)
(* C11 as claimed: every converted turn with at least one part yields at   *)
(* least one message.                                                      *)
(***************************************************************************)
C11_PartsGiveMessages ==
    \A i \in 1..Len(turnMsgs) :
        (turnMsgs[i].err = "" /\ Len(req.Contents[i].Parts) >= 1) =>
            Len(turnMsgs[i].messages) >= 1

HasText(turn) == \E k \in 1..Len(turn.Parts) : turn.Parts[k].Text /= ""

HasFunctionResponse(turn) ==
    \E k \in 1..Len(turn.Parts) : turn.Parts[k].FunctionResponse /= Nil

\* the messages of a conversion that are no tool messages of function responses
CombinedMessages(turn, messages) ==
    SubSeq(messages, Len(ExpectedToolMessages(turn.Parts)) + 1, Len(messages))

(***************************************************************************)
(* C11 amended: a converted turn yields zero messages exactly when none of *)
(* its parts holds non-empty text, a function call or a function response  *)
(* (a turn without parts is one such turn); the combined message is left   *)
(* out exactly when the turn has no non-empty text and no function call.   *)
(***************************************************************************)
C11_ZeroMessagesIffNothingToSay ==
    \A i \in 1..Len(turnMsgs) :
        turnMsgs[i].err = "" =>
            /\ (turnMsgs[i].messages = <<>>) <=>
                  ~(HasText(req.Contents[i]) \/ HasFunctionCall(req.Contents[i])
                      \/ HasFunctionResponse(req.Contents[i]))
            /\ (CombinedMessages(req.Contents[i], turnMsgs[i].messages) = <<>>) <=>
                  ~(HasText(req.Contents[i]) \/ HasFunctionCall(req.Contents[i]))
            /\ Len(CombinedMessages(req.Contents[i], turnMsgs[i].messages)) <= 1

\* a turn whose two parts are empty text converts to no message
C11_Witness ==
    /\ pc = "converted"
    /\ Len(turnMsgs) = 1 /\ turnMsgs[1].err = ""
    /\ Len(req.Contents[1].Parts) = 2
    /\ ~HasText(req.Contents[1])
    /\ ~HasFunctionCall(req.Contents[1])
    /\ ~HasFunctionResponse(req.Contents[1])
    /\ turnMsgs[1].messages = <<>>

(***************************************************************************)
(* What convertResponse is expected to build from a provider message.      *)
(***************************************************************************)
\* the entries of the mapping an argument string of the model parses to; the
\* empty string and a string that is no JSON document give no entry
ParsedEntries(arguments) ==
    CASE arguments = "{\"a\":1}" -> {<<"a", "1">>}
      [] arguments = "{\"b\":\"s\"}" -> {<<"b", "s">>}
      [] arguments = "{\"a\":1,\"b\":\"s\"}" -> {<<"a", "1">>, <<"b", "s">>}
      [] OTHER -> {}

\* part is the FunctionCall part of the tool call tc
IsCallPartOf(part, tc) ==
    /\ part.Text = ""
    /\ part.FunctionResponse = <<>>
    /\ part.FunctionCall /= <<>>
    /\ part.FunctionCall[1].ID = tc.ID
    /\ part.FunctionCall[1].Name = tc.Function.Name
    /\ part.FunctionCall[1].Args.kv = ParsedEntries(tc.Function.Arguments)

FunctionToolCalls(tcs) == SelectSeq(tcs, LAMBDA tc : tc.Type = "function")

\* parts are one FunctionCall part per tool call of tcs, in order
AreCallPartsOf(parts, tcs) ==
    /\ Len(parts) = Len(tcs)
    /\ \A k \in 1..Len(tcs) : IsCallPartOf(parts[k], tcs[k])

\* content is the model-role turn expected for the text and the tool calls
IsTurnOf(content, text, tcs) ==
    /\ content.Role = "model"
    /\ IF text /= ""
       THEN /\ content.Parts /= <<>>
            /\ Head(content.Parts) = [Text |-> text, FunctionCall |-> <<>>,
                                      FunctionResponse |-> <<>>]
            /\ AreCallPartsOf(Tail(content.Parts), FunctionToolCalls(tcs))
       ELSE AreCallPartsOf(content.Parts, FunctionToolCalls(tcs))

(***************************************************************************)
(* C12: for every provider message of a reply, convertResponse gives a     *)
(* response, never an error: one model-role turn whose parts are a Text    *)
(* part exactly when the content is non-empty, then one FunctionCall part  *)
(* per tool call of type "function" in list order, with the call's id and  *)
(* name and the parsed arguments (no entry for an empty or unparsable      *)
(* argument string); no content and no tool call give zero parts.          *)
(***************************************************************************)
C12_ResponseParts ==
    (~stream /\ completion /= Nil) =>
        ((completion[1].err = "" /\ completion[1].resp.Choices /= <<>>) =>
            /\ Len(emitted) = 1
            /\ emitted[1].err = ""
            /\ emitted[1].resp /= Nil
            /\ IsTurnOf(emitted[1].resp[1].Content,
                        completion[1].resp.Choices[1].Message.Content,
                        completion[1].resp.Choices[1].Message.ToolCalls))

\* text, a tool call of another type and a function call with broken arguments
C12_Witness ==
    /\ ~stream /\ completion /= Nil /\ completion[1].err = ""
    /\ completion[1].resp.Choices /= <<>>
    /\ completion[1].resp.Choices[1].Message.Content = "a"
    /\ Len(completion[1].resp.Choices[1].Message.ToolCalls) = 2
    /\ completion[1].resp.Choices[1].Message.ToolCalls[1].Type = "other"
    /\ completion[1].resp.Choices[1].Message.ToolCalls[2].Function.Arguments = "{"
    /\ Len(emitted[1].resp[1].Content.Parts) = 2
    /\ emitted[1].resp[1].Content.Parts[2].FunctionCall[1].ID = "x"

(***************************************************************************)
(* The request r with one generation option left unset.                    *)
(***************************************************************************)
TemperatureUnset(r) ==
    [r EXCEPT !.Config = <<[r.Config[1] EXCEPT !.Temperature = Nil]>>]

TopPUnset(r) ==
    [r EXCEPT !.Config = <<[r.Config[1] EXCEPT !.TopP = Nil]>>]

(***************************************************************************)
(* C13: a request built with the temperature (or the nucleus-sampling      *)
(* probability) explicitly set to 0 gives a provider request that differs  *)
(* from the one built from the same request with that option unset.        *)
(***************************************************************************)
C13_ExplicitZeroDistinguishable ==
    (pc = "converted" /\ openaiReq[1].err = "" /\ req.Config /= Nil) =>
        /\ req.Config[1].Temperature = <<0>> =>
               openaiReq[1].req /= convertRequest(TemperatureUnset(req)).req
        /\ req.Config[1].TopP = <<0>> =>
               openaiReq[1].req /= convertRequest(TopPUnset(req)).req

(***************************************************************************)
(* The provider role expected for each turn role of the model.             *)
(***************************************************************************)
RoleTable ==
    { <<"model", "assistant">>, <<"assistant", "assistant">>,
      <<"system", "system">>, <<"tool", "tool">>,
      <<"user", "user">>, <<"USER", "user">>, <<"", "user">> }

\* the number of messages the parts of a turn call for, whatever its role
MessagesCalledFor(turn) ==
    Len(ExpectedToolMessages(turn.Parts))
      + (IF HasText(turn) \/ HasFunctionCall(turn) THEN 1 ELSE 0)

(***************************************************************************)
(* C14: the role of a turn maps by exact-case comparison: "model" and      *)
(* "assistant" to assistant, "system" to system, "tool" to tool, and every *)
(* other role (the empty role, "user", "USER") to user; the mapping is     *)
(* defined for every role, and the number of messages a turn gives does    *)
(* not depend on its role, so no turn is dropped because of its role.      *)
(***************************************************************************)
C14_RoleMapping ==
    \A i \in 1..Len(turnMsgs) :
        turnMsgs[i].err = "" =>
            /\ Len(turnMsgs[i].messages) = MessagesCalledFor(req.Contents[i])
            /\ \A k \in 1..Len(CombinedMessages(req.Contents[i], turnMsgs[i].messages)) :
                   <<req.Contents[i].Role,
                     CombinedMessages(req.Contents[i], turnMsgs[i].messages)[k].Role>>
                       \in RoleTable

\* a turn of a role no case names, converted to a user message
C14_Witness ==
    /\ pc = "converted"
    /\ Len(turnMsgs) = 1
    /\ turnMsgs[1].err = ""
    /\ req.Contents[1].Role = "USER"
    /\ Len(turnMsgs[1].messages) = 1
    /\ turnMsgs[1].messages[1].Role = "user"
    /\ turnMsgs[1].messages[1].Content = "ab"

(***************************************************************************)
(* The finish reason expected for each provider finish reason of the model.*)
(***************************************************************************)
FinishTable ==
    { <<"stop", "STOP">>, <<"length", "MAX_TOKENS">>,
      <<"tool_calls", "STOP">>, <<"function_call", "STOP">>,
      <<"content_filter", "FINISH_REASON_UNSPECIFIED">>,
      <<"eos", "FINISH_REASON_UNSPECIFIED">>,
      <<"", "FINISH_REASON_UNSPECIFIED">> }

(***************************************************************************)
(* C15: the provider finish reason maps "stop" to Stop, "length" to        *)
(* MaxTokens, "tool_calls" and "function_call" to Stop and every other     *)
(* value, the empty one included, to Unspecified; the response of a        *)
(* non-streaming call and the final response of a streaming call both      *)
(* carry the finish reason mapped this way.                                *)
(***************************************************************************)
C15_FinishReasonMapping ==
    /\ (~stream /\ completion /= Nil) =>
          ((completion[1].err = "" /\ completion[1].resp.Choices /= <<>>) =>
              /\ Len(emitted) = 1
              /\ emitted[1].resp /= Nil
              /\ <<completion[1].resp.Choices[1].FinishReason,
                   emitted[1].resp[1].FinishReason>> \in FinishTable)
    /\ stream =>
          \A k \in Finals :
              /\ FinishChunks /= {}
              /\ \A i \in FinishChunks :
                    <<LogFinish(i), emitted[k].resp[1].FinishReason>> \in FinishTable

\* a stream ended by a chunk whose finish reason is "tool_calls"
C15_Witness ==
    /\ stream /\ pc = "done"
    /\ recvLog /= <<>>
    /\ LogFinish(Len(recvLog)) = "tool_calls"
    /\ emitted /= <<>>
    /\ IsFinal(Last(emitted))
    /\ Last(emitted).resp[1].FinishReason = "STOP"

(***************************************************************************)
(* C16: construction fails with the error "OpenRouter API key is required" *)
(* and returns no model when the configuration is nil or its API key is    *)
(* empty; otherwise it succeeds with a model that carries the given model  *)
(* name, the API key, and the supplied base URL when that is non-empty,    *)
(* else "https://openrouter.ai/api/v1".                                    *)
(***************************************************************************)
C16_Construction ==
    newResult /= Nil =>
        IF newArgs.cfg = Nil \/ newArgs.cfg[1].APIKey = ""
        THEN /\ newResult[1].err = "OpenRouter API key is required"
             /\ newResult[1].m = Nil
        ELSE /\ newResult[1].err = ""
             /\ newResult[1].m /= Nil
             /\ newResult[1].m[1].modelName = newArgs.modelName
             /\ newResult[1].m[1].client.authToken = newArgs.cfg[1].APIKey
             /\ newArgs.cfg[1].BaseURL /= "" =>
                    newResult[1].m[1].client.BaseURL = newArgs.cfg[1].BaseURL
             /\ newArgs.cfg[1].BaseURL = "" =>
                    newResult[1].m[1].client.BaseURL = "https://openrouter.ai/api/v1"

\* a configuration with a base URL and no API key has been refused
C16_Witness ==
    /\ newResult /= Nil
    /\ newArgs.cfg /= Nil
    /\ newArgs.cfg[1].APIKey = ""
    /\ newArgs.cfg[1].BaseURL = "u"
    /\ newResult[1].m = Nil
    /\ newResult[1].err /= ""

(***************************************************************************)
(* The tool-call deltas a streaming call has merged so far.                *)
(***************************************************************************)
\* the chunks whose tool-call deltas have been merged: every chunk read,
\* but the last one while its iteration is suspended in yield or was ended there
MergedChunks ==
    IF pc = "yield" \/ consumerStopped THEN Len(recvLog) - 1 ELSE Len(recvLog)

RECURSIVE DeltasUpTo(_)
DeltasUpTo(n) == IF n = 0 THEN <<>> ELSE DeltasUpTo(n - 1) \o LogDeltas(n)

\* the merged deltas that carry an index, in the order received
IndexedDeltas == SelectSeq(DeltasUpTo(MergedChunks), LAMBDA d : d.Index /= Nil)

\* the deltas of ds addressed to slot j (counted from 0)
SlotDeltas(ds, j) == SelectSeq(ds, LAMBDA d : d.Index = <<j>>)

\* one more than the largest index of ds, 0 when ds is empty
SlotsNeeded(ds) ==
    IF ds = <<>> THEN 0
    ELSE 1 + CHOOSE j \in 0..(MaxIndex + 1) :
                 /\ \E k \in 1..Len(ds) : ds[k].Index = <<j>>
                 /\ \A k \in 1..Len(ds) : ds[k].Index[1] <= j

RECURSIVE LastNonEmpty(_)
LastNonEmpty(strs) ==
    IF strs = <<>> THEN ""
    ELSE IF Last(strs) /= "" THEN Last(strs) ELSE LastNonEmpty(Front(strs))

RECURSIVE Concat(_)
Concat(strs) == IF strs = <<>> THEN "" ELSE Head(strs) \o Concat(Tail(strs))

\* slot is what the deltas sd, all addressed to it, add up to
IsSlotOf(slot, sd) ==
    /\ sd = <<>> => slot = EmptyToolCall
    /\ slot.ID = LastNonEmpty([k \in 1..Len(sd) |-> sd[k].ID])
    /\ slot.Type = LastNonEmpty([k \in 1..Len(sd) |-> sd[k].Type])
    /\ slot.Function.Name = LastNonEmpty([k \in 1..Len(sd) |-> sd[k].Function.Name])
    /\ slot.Function.Arguments = Concat([k \in 1..Len(sd) |-> sd[k].Function.Arguments])

\* tcs is what the indexed deltas ds add up to
AreSlotsOf(tcs, ds) ==
    /\ Len(tcs) = SlotsNeeded(ds)
    /\ \A j \in 1..Len(tcs) : IsSlotOf(tcs[j], SlotDeltas(ds, j - 1))

(***************************************************************************)
(* C17: at every point of a streaming call the tool-call accumulator is    *)
(* as long as the largest index merged so far plus one (empty before any   *)
(* indexed delta), a slot no delta has addressed is an empty placeholder,  *)
(* the id, type and name of a slot are the last non-empty value a delta    *)
(* for that slot carried, its arguments are the concatenation of every     *)
(* fragment for that slot in the order received; and the length of the     *)
(* accumulator never decreases.                                            *)
(***************************************************************************)
C17_Accumulator ==
    /\ [](stream => AreSlotsOf(accumulatedToolCalls, IndexedDeltas))
    /\ [][Len(accumulatedToolCalls') >= Len(accumulatedToolCalls)]_vars

\* slot 0 never addressed; slot 1 renamed by a later header, two fragments
C17_Witness ==
    /\ stream /\ pc = "recv"
    /\ Len(IndexedDeltas) = 3
    /\ Len(accumulatedToolCalls) = 2
    /\ accumulatedToolCalls[1] = EmptyToolCall
    /\ accumulatedToolCalls[2].ID = "x"
    /\ accumulatedToolCalls[2].Function.Name = "f"
    /\ accumulatedToolCalls[2].Function.Arguments = "}{"
    /\ IndexedDeltas[1].ID = "y"

CallPartsOf(v) ==
    SelectSeq(v.resp[1].Content.Parts, LAMBDA part : part.FunctionCall /= <<>>)

(***************************************************************************)
(* C19: in the final response of a streaming call the FunctionCall parts   *)
(* are, one for one and in slot order, the accumulated tool-call slots     *)
(* whose type is "function" when the finish chunk is handled; a            *)
(* placeholder slot and a slot that got an id, a name or arguments but no  *)
(* type give no part; and the accumulated slots are those of the deltas    *)
(* that carry an index, a delta without index having changed nothing.      *)
(***************************************************************************)
C19_FinalFunctionCalls ==
    (stream /\ ~consumerStopped /\ pc = "done" /\ Finals /= {}) =>
        /\ IsFinal(Last(emitted))
        /\ AreCallPartsOf(CallPartsOf(Last(emitted)),
                          FunctionToolCalls(accumulatedToolCalls))
        /\ AreSlotsOf(accumulatedToolCalls, IndexedDeltas)

\* a typed delta without index, a slot that never gets a type, and a function
\* call in slot 0 delivered by the finish chunk
C19_Witness ==
    /\ stream /\ ~consumerStopped /\ pc = "done"
    /\ Len(recvLog) = 3
    /\ Len(LogDeltas(1)) = 1
    /\ LogDeltas(1)[1].Index = Nil
    /\ LogDeltas(1)[1].Type = "function"
    /\ LogFinish(3) = "tool_calls"
    /\ Len(accumulatedToolCalls) = 2
    /\ accumulatedToolCalls[1].Type = "function"
    /\ accumulatedToolCalls[2].Type = ""
    /\ accumulatedToolCalls[2].ID = "y"
    /\ Finals /= {}
    /\ Len(CallPartsOf(Last(emitted))) = 1
    /\ CallPartsOf(Last(emitted))[1].FunctionCall[1].ID = "x"

\* the texts of the Partial responses among vs, concatenated in order
RECURSIVE PartialsText(_)
PartialsText(vs) ==
    IF vs = <<>> THEN ""
    ELSE (IF IsPartial(Head(vs)) THEN PartsText(Head(vs).resp[1].Content.Parts) ELSE "")
            \o PartialsText(Tail(vs))

\* the text increment of one Recv result
EntryText(e) ==
    IF e.chunk /= Nil /\ Len(e.chunk[1].Choices) > 0
    THEN e.chunk[1].Choices[1].Delta.Content
    ELSE ""

(***************************************************************************)
(* C20: while the consumer of a streaming call has not stopped, the        *)
(* accumulated text is the concatenation, in emission order, of the texts  *)
(* of the Partial responses emitted so far, and the text of the final      *)
(* response is the concatenation of all Partial texts; a Recv result with  *)
(* no choices or with empty text leaves the accumulated text unchanged.    *)
(***************************************************************************)
C20_AccumulatedText ==
    /\ []((stream /\ ~consumerStopped) =>
            /\ accumulatedContent = PartialsText(emitted)
            /\ \A k \in Finals :
                   PartsText(emitted[k].resp[1].Content.Parts) = PartialsText(emitted))
    /\ [][(Len(recvLog') = Len(recvLog) + 1 /\ EntryText(Last(recvLog')) = "")
             => accumulatedContent' = accumulatedContent]_vars

\* text, a chunk with no choices, text again with the finish reason
C20_Witness ==
    /\ stream /\ ~consumerStopped /\ pc = "done"
    /\ Len(recvLog) = 3
    /\ LogText(1) = "a"
    /\ recvLog[2].chunk /= Nil
    /\ recvLog[2].chunk[1].Choices = <<>>
    /\ LogText(3) = "a" /\ LogFinish(3) = "stop"
    /\ accumulatedContent = "aa"
    /\ Len(emitted) = 3
    /\ PartsText(emitted[3].resp[1].Content.Parts) = "aa"

(***************************************************************************)
(* C21: in a streaming call, from the step in which the consumer declines  *)
(* a Partial response on, nothing more is read from the stream and nothing *)
(* more is emitted: the call is over, every value emitted is a Partial     *)
(* response, one per text chunk read, with no final response and no error, *)
(* and the tool-call deltas and the finish reason of the declined chunk    *)
(* have had no effect. Every step hands at most one value to the consumer, *)
(* and after it the producer is suspended in yield or has returned.        *)
(***************************************************************************)
C21_NothingAfterDecline ==
    /\ [](consumerStopped =>
            /\ stream /\ pc = "done"
            /\ emitted /= <<>>
            /\ \A k \in 1..Len(emitted) : IsPartial(emitted[k])
            /\ Len(emitted) = Cardinality(TextChunks)
            /\ Finals = {} /\ Errors = {}
            /\ LogText(Len(recvLog)) /= ""
            /\ AreSlotsOf(accumulatedToolCalls, IndexedDeltas))
    /\ [][consumerStopped' => (recvLog' = recvLog /\ emitted' = emitted)]_vars
    /\ [][Len(emitted') > Len(emitted) =>
              (Len(emitted') = Len(emitted) + 1 /\ pc' \in {"yield", "done"})]_vars

\* the consumer declined the Partial of a chunk that also carried a tool-call
\* delta and a finish reason
C21_Witness ==
    /\ stream /\ consumerStopped /\ pc = "done"
    /\ Len(recvLog) = 2
    /\ LogText(1) = "a"
    /\ LogText(2) = "b"
    /\ LogDeltas(2) /= <<>>
    /\ LogFinish(2) = "tool_calls"
    /\ Len(emitted) = 2
    /\ IsPartial(emitted[2])
    /\ accumulatedToolCalls = <<>>
    /\ handle = "closed"

====
